---- MODULE Spec2Model ----
(***************************************************************************)
(* Model of debug_wasm.py: a script that runs one `cargo test` child       *)
(* process with captured output (subprocess.run, lines 6-8) and prints a   *)
(* three-block report (lines 10-14).                                       *)
(*                                                                         *)
(* Text is a sequence of one-character strings.  What the child writes is  *)
(* a sequence of bytes; text=True decodes it with universal newlines.      *)
(* subprocess.run is modelled with its POSIX semantics (the working        *)
(* directory of the script is a /Users/... path): the child is forked,     *)
(* the forked child changes directory and executes the program, and a      *)
(* failure of either step is reported back to the parent, which reaps the  *)
(* child and raises.                                                       *)
(***************************************************************************)
EXTENDS Integers, Sequences, FiniteSets

VARIABLES
    cwdValid,   \* environment: the working directory exists and is a directory
    exeFound,   \* environment: 'cargo' is found on the search path
    prog,       \* environment: what the child program writes and returns
    pc,         \* position of the script
    child,      \* process-table state of the child
    childArgv,  \* argument vector the child was created with
    childCwd,   \* working directory the child was created with
    childRc,    \* <<>> or <<exit code of the child>>
    pipeOut,    \* bytes the child has written to its standard output
    pipeErr,    \* bytes the child has written to its standard error
    spawns,     \* number of child processes created in this run
    captured,   \* <<>> or <<the decoded streams communicate() collected>>
    result,     \* the CompletedProcess objects bound to `result` (at most one)
    error,      \* the exception raised by subprocess.run, or "none"
    out,        \* what the script has written to its own standard output
    status,     \* <<>> or <<exit status of the script>>
    run,        \* number of the current invocation of the script
    history     \* results and reports of the earlier invocations

vars == <<cwdValid, exeFound, prog, pc, child, childArgv, childCwd, childRc,
          pipeOut, pipeErr, spawns, captured, result, error, out, status, run,
          history>>

env == <<cwdValid, exeFound, prog>>

----------------------------------------------------------------------------
(* Bounds of the model.                                                    *)

MaxOutLen == 1

MaxErrLen == 1

MaxRuns == 2

----------------------------------------------------------------------------
(* Text.                                                                   *)

NL == <<"\n">>

Bytes == {"a", "\n", "\r"}

RECURSIVE TextsUpTo(_)
TextsUpTo(n) ==
    IF n = 0 THEN {<<>>}
    ELSE LET shorter == TextsUpTo(n - 1)
         IN  shorter \cup {Append(t, b) : t \in {s \in shorter : Len(s) = n - 1},
                                          b \in Bytes}

Hello == <<"h", "e", "l", "l", "o", "\n">>

CrLfLine == <<"a", "\r", "\n">>

OutTexts == TextsUpTo(MaxOutLen) \cup {Hello, CrLfLine}

ErrTexts == TextsUpTo(MaxErrLen)

ExitCodes == {0, 101, -9}

Programs == [out : OutTexts, err : ErrTexts, rc : ExitCodes]

\* text=True: universal newlines, "\r\n" and "\r" are read as "\n".
RECURSIVE Decode(_)
Decode(b) ==
    IF b = <<>> THEN <<>>
    ELSE IF Head(b) = "\r"
         THEN IF Len(b) >= 2 /\ b[2] = "\n"
              THEN NL \o Decode(Tail(Tail(b)))
              ELSE NL \o Decode(Tail(b))
         ELSE <<Head(b)>> \o Decode(Tail(b))

Digits == <<"0", "1", "2", "3", "4", "5", "6", "7", "8", "9">>

RECURSIVE NatToStr(_)
NatToStr(n) ==
    IF n < 10 THEN <<Digits[n + 1]>>
    ELSE NatToStr(n \div 10) \o <<Digits[(n % 10) + 1]>>

\* f"{result.returncode}": the decimal digits, with a leading "-" below zero.
IntToStr(n) == IF n < 0 THEN <<"-">> \o NatToStr(0 - n) ELSE NatToStr(n)

\* Variant: print(x, end="").
PrintNoNewline(s) == s

\* print(x): the text of x followed by a line terminator.
PrintLine(s) == s \o NL

\* The lines of a text: every "\n" ends a line.
RECURSIVE SplitFrom(_, _, _)
SplitFrom(s, i, cur) ==
    IF i > Len(s) THEN (IF cur = <<>> THEN <<>> ELSE <<cur>>)
    ELSE IF s[i] = "\n" THEN <<cur>> \o SplitFrom(s, i + 1, <<>>)
    ELSE SplitFrom(s, i + 1, Append(cur, s[i]))

Lines(s) == SplitFrom(s, 1, <<>>)

IsPrefix(p, s) == Len(p) <= Len(s) /\ SubSeq(s, 1, Len(p)) = p

Contains(s, t) ==
    \E i \in 0 .. (Len(s) - Len(t)) : SubSeq(s, i + 1, i + Len(t)) = t

----------------------------------------------------------------------------
(* The literals of the script.                                             *)

Args == <<"cargo", "test", "stdlib::numeric_ops::tests::test_add", "--", "--nocapture">>

Cwd == "/Users/earcandy/Documents/Dev/Clean Language"

LabelStdout == <<"S", "T", "D", "O", "U", "T", ":">>

LabelStderr == <<"S", "T", "D", "E", "R", "R", ":">>

LabelReturnCode == <<"R", "e", "t", "u", "r", "n", " ", "c", "o", "d", "e", ":", " ">>

StdoutHeader == LabelStdout

\* Variant: print("STDERR:") without the leading "\n".
StderrHeaderNoBlank == LabelStderr

StderrHeader == NL \o LabelStderr

ReturnCodeLine(rc) == NL \o LabelReturnCode \o IntToStr(rc)

----------------------------------------------------------------------------
(* The state after the interpreter has started the script.                 *)

Init ==
    /\ cwdValid \in BOOLEAN
    /\ exeFound \in BOOLEAN
    /\ prog \in Programs
    /\ pc = "start"
    /\ child = "none"
    /\ childArgv = <<>>
    /\ childCwd = ""
    /\ childRc = <<>>
    /\ pipeOut = <<>>
    /\ pipeErr = <<>>
    /\ spawns = 0
    /\ captured = <<>>
    /\ result = <<>>
    /\ error = "none"
    /\ out = <<>>
    /\ status = <<>>
    /\ run = 1
    /\ history = <<>>

----------------------------------------------------------------------------
(* subprocess.run(Args, capture_output=True, text=True, cwd=Cwd)           *)

\* Variant: the exception is swallowed and the report is printed anyway.
RaiseSwallowed == "line10"

\* Variant: the call is retried after a failure.
RaiseRetries == "start"

\* Where control goes when subprocess.run raises: the script has no handler.
RaiseTarget == "raised"

\* Variant: check=True.
CheckTrue == TRUE

\* check is not passed, so a non-zero exit code raises nothing.
Check == FALSE

\* Variant: cwd is not passed on to the child.
ChdirIgnored == TRUE

\* The forked child changes to cwd before it executes the program.
ChdirOk == cwdValid

\* Variant: the pipes are read once without waiting for end of file.
CaptureWhileRunning == child \in {"running", "zombie"}

\* Variant: the streams are only collected after the child has been waited for.
CaptureAfterReap == child = "reaped"

\* communicate() returns once both pipes are at end of file, that is once the
\* child has exited and everything it wrote is in the pipes.
CaptureComplete == child = "zombie"

\* capture_output=True: creating the pipes fails (OSError); nothing is spawned.
PipeFail ==
    /\ pc = "start"
    /\ error' = "CaptureError"
    /\ pc' = RaiseTarget
    /\ UNCHANGED <<env, child, childArgv, childCwd, childRc, pipeOut, pipeErr,
                   spawns, captured, result, out, status, run, history>>

\* Popen forks the child; the parent then waits for the child's exec report.
Spawn ==
    /\ pc = "start"
    /\ child' = "forked"
    /\ childArgv' = Args
    /\ childCwd' = Cwd
    /\ spawns' = spawns + 1
    /\ pc' = "exec_wait"
    /\ UNCHANGED <<env, childRc, pipeOut, pipeErr, captured, result, error, out,
                   status, run, history>>

\* In the forked child: chdir(cwd) fails; the child reports it and exits.
ChildChdirFail ==
    /\ child = "forked"
    /\ ~ChdirOk
    /\ child' = "exec_failed"
    /\ childRc' = <<255>>
    /\ UNCHANGED <<env, pc, childArgv, childCwd, pipeOut, pipeErr, spawns, captured,
                   result, error, out, status, run, history>>

\* In the forked child: 'cargo' is not found; the child reports it and exits.
ChildExecFail ==
    /\ child = "forked"
    /\ ChdirOk
    /\ ~exeFound
    /\ child' = "exec_failed"
    /\ childRc' = <<255>>
    /\ UNCHANGED <<env, pc, childArgv, childCwd, pipeOut, pipeErr, spawns, captured,
                   result, error, out, status, run, history>>

\* In the forked child: the program is executed.
ChildExec ==
    /\ child = "forked"
    /\ ChdirOk
    /\ exeFound
    /\ child' = "running"
    /\ UNCHANGED <<env, pc, childArgv, childCwd, childRc, pipeOut, pipeErr,
                   spawns, captured, result, error, out, status, run, history>>

\* The parent reads the failure report, reaps the child and raises.
LaunchFail ==
    /\ pc = "exec_wait"
    /\ child = "exec_failed"
    /\ child' = "reaped"
    /\ error' = "LaunchError"
    /\ pc' = RaiseTarget
    /\ UNCHANGED <<env, childArgv, childCwd, childRc, pipeOut, pipeErr, spawns, captured,
                   result, out, status, run, history>>

\* The parent sees the exec succeed and goes on to communicate().
LaunchOk ==
    /\ pc = "exec_wait"
    /\ child \in {"running", "zombie"}
    /\ pc' = "communicate"
    /\ UNCHANGED <<env, child, childArgv, childCwd, childRc, pipeOut, pipeErr,
                   spawns, captured, result, error, out, status, run, history>>

\* The program writes the next byte of its standard output.
ChildWriteStdout ==
    /\ child = "running"
    /\ Len(pipeOut) < Len(prog.out)
    /\ pipeOut' = Append(pipeOut, prog.out[Len(pipeOut) + 1])
    /\ UNCHANGED <<env, pc, child, childArgv, childCwd, childRc, pipeErr,
                   spawns, captured, result, error, out, status, run, history>>

\* The program writes the next byte of its standard error.
ChildWriteStderr ==
    /\ child = "running"
    /\ Len(pipeErr) < Len(prog.err)
    /\ pipeErr' = Append(pipeErr, prog.err[Len(pipeErr) + 1])
    /\ UNCHANGED <<env, pc, child, childArgv, childCwd, childRc, pipeOut,
                   spawns, captured, result, error, out, status, run, history>>

\* The program has written everything and exits with its exit code.
ChildExit ==
    /\ child = "running"
    /\ pipeOut = prog.out
    /\ pipeErr = prog.err
    /\ child' = "zombie"
    /\ childRc' = <<prog.rc>>
    /\ UNCHANGED <<env, pc, childArgv, childCwd, pipeOut, pipeErr, spawns, captured,
                   result, error, out, status, run, history>>

\* Variant: the exception propagates without the child being killed and
\* waited for.
ReadFailNoKill ==
    /\ pc = "communicate"
    /\ child \in {"running", "zombie"}
    /\ error' = "CaptureError"
    /\ pc' = RaiseTarget
    /\ UNCHANGED <<env, child, childArgv, childCwd, childRc, pipeOut, pipeErr,
                   spawns, captured, result, out, status, run, history>>

\* Reading or decoding the pipes fails inside communicate(): run() kills the
\* child, Popen.__exit__ waits for it, and the exception propagates.
ReadFail ==
    /\ pc = "communicate"
    /\ child \in {"running", "zombie"}
    /\ childRc' = IF child = "running" THEN <<-9>> ELSE childRc
    /\ child' = "reaped"
    /\ error' = "CaptureError"
    /\ pc' = RaiseTarget
    /\ UNCHANGED <<env, childArgv, childCwd, pipeOut, pipeErr, spawns, captured,
                   result, out, status, run, history>>

\* communicate() has read both pipes to end of file and decoded them.
CommunicateRead ==
    /\ pc = "communicate"
    /\ CaptureComplete
    /\ captured' = <<[stdout |-> Decode(pipeOut), stderr |-> Decode(pipeErr)]>>
    /\ pc' = "wait"
    /\ UNCHANGED <<env, child, childArgv, childCwd, childRc, pipeOut, pipeErr,
                   spawns, result, error, out, status, run, history>>

\* The child is waited for, and run() returns
\* CompletedProcess(args, returncode, stdout, stderr), bound to `result`.
CommunicateReturn ==
    /\ pc = "wait"
    /\ child = "zombie"
    /\ child' = "reaped"
    /\ IF Check /\ childRc # <<0>>
       THEN /\ error' = "CalledProcessError"
            /\ pc' = RaiseTarget
            /\ result' = result
       ELSE /\ result' = Append(result, [stdout |-> captured[1].stdout,
                                         stderr |-> captured[1].stderr,
                                         returncode |-> childRc])
            /\ pc' = "line10"
            /\ error' = error
    /\ UNCHANGED <<env, captured, childArgv, childCwd, childRc, pipeOut, pipeErr,
                   spawns, out, status, run, history>>

----------------------------------------------------------------------------
(* The reporting step.                                                     *)

Emit(from, text, to) ==
    /\ pc = from
    /\ out' = out \o PrintLine(text)
    /\ pc' = to
    /\ UNCHANGED <<env, child, childArgv, childCwd, childRc, pipeOut, pipeErr,
                   spawns, captured, result, error, status, run, history>>

Line10 == Emit("line10", StdoutHeader, "line11")

Line11 == Emit("line11", result[Len(result)].stdout, "line12")

Line12 == Emit("line12", StderrHeader, "line13")

Line13 == Emit("line13", result[Len(result)].stderr, "line14")

Line14 == Emit("line14", ReturnCodeLine(result[Len(result)].returncode[1]), "end")

----------------------------------------------------------------------------
(* The end of the script.                                                  *)

\* Variant: sys.exit(result.returncode).
ExitStatusOfChild == result[Len(result)].returncode[1]

\* The script falls off its last line: the interpreter exits with status 0.
ExitStatus == 0

ExitOk ==
    /\ pc = "end"
    /\ status' = <<ExitStatus>>
    /\ pc' = "exited"
    /\ UNCHANGED <<env, child, childArgv, childCwd, childRc, pipeOut, pipeErr,
                   spawns, captured, result, error, out, run, history>>

\* An unhandled exception: traceback on standard error, exit status 1.
Abort ==
    /\ pc = "raised"
    /\ status' = <<1>>
    /\ pc' = "exited"
    /\ UNCHANGED <<env, child, childArgv, childCwd, childRc, pipeOut, pipeErr,
                   spawns, captured, result, error, out, run, history>>

\* The script is invoked again in the same environment.
Rerun ==
    /\ pc = "exited"
    /\ run < MaxRuns
    /\ history' = Append(history, [result |-> result, out |-> out, status |-> status])
    /\ run' = run + 1
    /\ pc' = "start"
    /\ child' = "none"
    /\ childArgv' = <<>>
    /\ childCwd' = ""
    /\ childRc' = <<>>
    /\ pipeOut' = <<>>
    /\ pipeErr' = <<>>
    /\ spawns' = 0
    /\ captured' = <<>>
    /\ result' = <<>>
    /\ error' = "none"
    /\ out' = <<>>
    /\ status' = <<>>
    /\ UNCHANGED env

----------------------------------------------------------------------------

Wrapper ==
    \/ PipeFail
    \/ Spawn
    \/ LaunchFail
    \/ LaunchOk
    \/ ReadFail
    \/ CommunicateRead
    \/ CommunicateReturn
    \/ Line10
    \/ Line11
    \/ Line12
    \/ Line13
    \/ Line14
    \/ ExitOk
    \/ Abort

Child ==
    \/ ChildChdirFail
    \/ ChildExecFail
    \/ ChildExec
    \/ ChildWriteStdout
    \/ ChildWriteStderr
    \/ ChildExit

Next == Wrapper \/ Child

Spec == Init /\ [][Next]_vars

\* The steps the interpreter takes when nothing fails in the environment.
WrapperProgress ==
    \/ Spawn
    \/ LaunchFail
    \/ LaunchOk
    \/ CommunicateRead
    \/ CommunicateReturn
    \/ Line10
    \/ Line11
    \/ Line12
    \/ Line13
    \/ Line14
    \/ ExitOk
    \/ Abort

\* The interpreter keeps executing the script, and the operating system keeps
\* scheduling the child, whose program terminates.  A failure of the
\* environment (PipeFail, ReadFail) may happen but is never bound to.
LiveSpec == Spec /\ WF_vars(WrapperProgress) /\ WF_vars(Child)

NextRerun == Next \/ Rerun

SpecRerun == Init /\ [][NextRerun]_vars

----------------------------------------------------------------------------
(* Properties.                                                             *)

TheResult == result[Len(result)]

Finished == pc \in {"end", "exited"}

ChildExists == child \in {"forked", "exec_failed", "running", "zombie"}

\* The report for captured texts so and se and exit code rc, written out
\* character by character.
ReportOf(so, se, rc) ==
    LabelStdout \o NL \o so \o NL
    \o NL \o LabelStderr \o NL \o se \o NL
    \o NL \o LabelReturnCode \o IntToStr(rc) \o NL

ReturnCodeZeroLine == NL \o LabelReturnCode \o <<"0">> \o NL

\* C1 (as stated): whenever the child was launched and exited and the script
\* has finished, the output is "STDOUT:", the captured stdout, a blank line,
\* "STDERR:", the captured stderr, a blank line and "Return code: <rc>", each
\* written as a line; and for a child that writes S and exits 0 the output
\* contains "STDOUT:\n" followed by S as the child wrote it, and the line
\* "Return code: 0".
C1_Original ==
    (result # <<>> /\ Finished) =>
        /\ out = ReportOf(TheResult.stdout, TheResult.stderr, TheResult.returncode[1])
        /\ prog.rc = 0 =>
              /\ Contains(out, LabelStdout \o NL \o prog.out)
              /\ Contains(out, ReturnCodeZeroLine)

\* C1 (amended): at every moment the output is a prefix of the report
\* "STDOUT:", captured stdout, blank line, "STDERR:", captured stderr, blank
\* line, "Return code: <rc>", and it is the whole report once the script has
\* finished; for a child that writes S and exits 0 the report contains
\* "STDOUT:\n" followed by S with "\r\n" and "\r" read as "\n", and the line
\* "Return code: 0".
C1_ReportInOrder ==
    result # <<>> =>
        LET full == ReportOf(TheResult.stdout, TheResult.stderr, TheResult.returncode[1])
        IN  /\ IsPrefix(out, full)
            /\ Finished => out = full
            /\ (Finished /\ prog.rc = 0) =>
                  /\ Contains(out, LabelStdout \o NL \o Decode(prog.out))
                  /\ Contains(out, ReturnCodeZeroLine)

C1_Witness ==
    /\ pc = "exited"
    /\ result # <<>>
    /\ prog.rc = 0
    /\ prog.out = CrLfLine
    /\ prog.err # <<>>
    /\ Len(out) > Len(LabelStdout)

\* C2: whenever any report text has been written, or a result exists, the
\* child has exited and been waited for, its exit code is defined and is the
\* result's, and the captured texts are the decoding of everything the child's
\* program writes; when the script has exited no child is left.
C2_CompleteBeforeReport ==
    /\ (out # <<>> \/ result # <<>>) =>
          /\ child = "reaped"
          /\ childRc # <<>>
          /\ result # <<>>
          /\ TheResult.returncode = childRc
          /\ pipeOut = prog.out
          /\ pipeErr = prog.err
          /\ TheResult.stdout = Decode(pipeOut)
          /\ TheResult.stderr = Decode(pipeErr)
    /\ pc = "exited" => ~ChildExists

C2_Witness ==
    /\ pc = "line11"
    /\ out = LabelStdout \o NL
    /\ prog.out = Hello
    /\ prog.err # <<>>
    /\ child = "reaped"

\* C3: no exit code of the child raises an error; with any exit code the
\* finished script has printed the whole report and its last line is
\* "Return code: " followed by the child's exit code in decimal.
C3_NonZeroExitIsData ==
    /\ error \in {"none", "LaunchError", "CaptureError"}
    /\ result # <<>> => error = "none"
    /\ (child = "reaped" /\ childRc = <<prog.rc>> /\ Finished /\ error = "none") =>
          /\ out = ReportOf(Decode(prog.out), Decode(prog.err), prog.rc)
          /\ LET last == Lines(out)[Len(Lines(out))]
             IN  /\ prog.rc = 0 => last = LabelReturnCode \o <<"0">>
                 /\ prog.rc = 101 => last = LabelReturnCode \o <<"1", "0", "1">>
                 /\ prog.rc = -9 => last = LabelReturnCode \o <<"-", "9">>

C3_Witness ==
    /\ pc = "exited"
    /\ prog.rc = 101
    /\ error = "none"
    /\ Contains(out, LabelReturnCode \o <<"1", "0", "1">>)

\* C4 (as stated): with an invalid working directory no child process is ever
\* created.
C4_Original == ~cwdValid => (spawns = 0 /\ child = "none")

\* C4 (amended): with an invalid working directory the program is never
\* executed: the child never gets past the fork, writes nothing, the parent
\* reaps it before the error is raised, and no result or report exists; the
\* run ends with an error.
C4_NoExecInInvalidCwd ==
    ~cwdValid =>
        /\ child \notin {"running", "zombie"}
        /\ pipeOut = <<>> /\ pipeErr = <<>>
        /\ result = <<>> /\ out = <<>>
        /\ error # "none" => ~ChildExists
        /\ pc = "exited" => (error \in {"LaunchError", "CaptureError"} /\ status = <<1>>)
        /\ pc \in {"start", "exec_wait", "raised", "exited"}

C4_Witness ==
    /\ ~cwdValid
    /\ exeFound
    /\ error = "LaunchError"
    /\ spawns = 1
    /\ child = "reaped"
    /\ pc = "exited"

\* C5: once subprocess.run has raised, nothing is retried or recovered: the
\* script is on its way out with status 1, no result exists and its standard
\* output is empty.
C5_FailureAbortsBeforeReport ==
    error # "none" =>
        /\ pc \in {"raised", "exited"}
        /\ result = <<>>
        /\ out = <<>>
        /\ spawns <= 1
        /\ ~ChildExists
        /\ pc = "exited" => status = <<1>>

C5_Witness ==
    /\ error = "LaunchError"
    /\ cwdValid
    /\ ~exeFound
    /\ pc = "exited"

ResultAvailable ==
    /\ result # <<>>
    /\ TheResult.returncode # <<>>
    /\ TheResult.returncode[1] \in Int
    /\ TheResult.returncode[1] = prog.rc

IsHelloRun ==
    /\ prog.out = Hello
    /\ prog.err = <<>>
    /\ prog.rc = 0
    /\ pc = "exited"
    /\ result # <<>>

HelloLine == <<"h", "e", "l", "l", "o">>

\* C8 (as stated): for the child that writes "hello\n", nothing to stderr and
\* exits 0 the report is STDOUT:, hello, one blank line, STDERR:, two blank
\* lines, Return code: 0.
C8_Original ==
    IsHelloRun =>
        Lines(out) = <<LabelStdout, HelloLine, <<>>,
                       LabelStderr, <<>>, <<>>,
                       LabelReturnCode \o <<"0">>>>

\* C8 (amended): for that child the report is the eight lines STDOUT:, hello,
\* two blank lines, STDERR:, two blank lines, Return code: 0.
C8_HelloReport ==
    IsHelloRun =>
        Lines(out) = <<LabelStdout, HelloLine, <<>>, <<>>,
                       LabelStderr, <<>>, <<>>,
                       LabelReturnCode \o <<"0">>>>

C8_Witness == IsHelloRun /\ Len(Lines(out)) = 8

Outcomes == Append(history, [result |-> result, out |-> out, status |-> status])

\* C9: any two invocations in the same environment that both got a result
\* got the same exit code, the same stdout and stderr text, and printed the
\* same report.
C9_RepeatableResult ==
    pc = "exited" =>
        \A i, j \in DOMAIN Outcomes :
            (Outcomes[i].result # <<>> /\ Outcomes[j].result # <<>>) =>
                /\ Outcomes[i].result = Outcomes[j].result
                /\ Outcomes[i].out = Outcomes[j].out

C9_Witness ==
    /\ pc = "exited"
    /\ run = 2
    /\ history[1].result # <<>>
    /\ result # <<>>
    /\ prog.out = CrLfLine
    /\ prog.err # <<>>

\* C10: a run creates at most one child, always with the fixed argument vector
\* and working directory, binds at most one result, and a run that finished
\* without an error created exactly one child and got exactly one result.
C10_OneSpawn ==
    /\ spawns <= 1
    /\ Len(result) <= 1
    /\ spawns = 1 =>
          /\ childArgv = <<"cargo", "test", "stdlib::numeric_ops::tests::test_add",
                           "--", "--nocapture">>
          /\ childCwd = "/Users/earcandy/Documents/Dev/Clean Language"
    /\ spawns = 0 => (child = "none" /\ result = <<>>)
    /\ (Finished /\ error = "none") => (spawns = 1 /\ Len(result) = 1)

C10_Witness ==
    /\ pc = "exited"
    /\ error = "none"
    /\ spawns = 1
    /\ prog.rc # 0

====
